---- MODULE Spec2Model ----
(***************************************************************************)
(* A model of the netcore DNS service (package netdns, src/netcore.go):    *)
(* the frontend dnsQueryServe, the per-question lookup serveQuestion, the  *)
(* resolution core answerQuestion with its probe goroutines                *)
(* (fetchBestEntry, fetchRelatedEntries, fetchEntry), the authority        *)
(* oracle haveAuthority, the forwarder client forwardQuestion and the      *)
(* answer builders.                                                        *)
(*                                                                         *)
(* The record store (Provider) and the upstream resolvers are the          *)
(* environment.  The store is an immutable snapshot: the outcome of        *)
(* RR(name, rrtype) for a key is drawn the first time a result for that    *)
(* key is received and is the same ever after (variable store).  The       *)
(* outcomes of the exists check HasRR are fixed when the service starts    *)
(* (variable zones).                                                       *)
(***************************************************************************)
EXTENDS Integers, Sequences, FiniteSets, TLC

(***************************************************************************)
(* Bounds of the model.                                                    *)
(***************************************************************************)
\* Questions carried by one message.
MaxQuestions == 2
\* Nested invocations of answerQuestion the goroutine stack holds; a chase
\* that needs one more ends the process (Go's fatal "stack overflow").
StackLimit == 3

(***************************************************************************)
(* Strings.  A host name string is its labels and the number of dots that  *)
(* trail them: "a.ex.com" is <<a,ex,com>> with 0 dots, "a.ex.com." with 1. *)
(***************************************************************************)
Str(labels, dots) == [labels |-> labels, dots |-> dots]

\* strings.TrimSuffix(s, "."): removes ONE trailing dot when there is one.
TrimSuffixDot(s) == IF s.dots > 0 THEN [s EXCEPT !.dots = @ - 1] ELSE s

\* s + "."
AppendDot(s) == [s EXCEPT !.dots = @ + 1]

\* strings.TrimSuffix(v, ".") + ".", the normalisation every builder applies.
DotTerminate(s) == AppendDot(TrimSuffixDot(s))

\* strings.Split(s, "."): a trailing dot yields a trailing empty part.
SplitDots(s) ==
    IF s.labels = <<>> THEN [i \in 1..(s.dots + 1) |-> ""]
    ELSE s.labels \o [i \in 1..s.dots |-> ""]

\* nameParts[i:] (i counted from 0, as in the source).
PartsFrom(parts, i) == SubSeq(parts, i + 1, Len(parts))

(***************************************************************************)
(* Configuration and clock.                                                *)
(***************************************************************************)
\* uint32(s.cfg.DefaultTTL() / time.Second)
DefaultTTL == 10
\* time.Now().Unix() while one message is served.
Now == 100

(***************************************************************************)
(* The inputs: names, questions, store contents, zones, forwarders.        *)
(***************************************************************************)
NameA == <<"a", "ex", "com">>
NameX == <<"x", "org">>
ZoneEx == <<"ex", "com">>

QNames == {Str(NameA, 1), Str(NameX, 1)}
QTypes == {"A", "CNAME", "SOA", "DNAME"}
Questions == [name : QNames, qtype : QTypes]

\* Messages of two or more questions ask these.
MultiQuestions == {[name |-> Str(NameA, 1), qtype |-> "CNAME"],
                   [name |-> Str(NameX, 1), qtype |-> "CNAME"]}

\* A third and later question repeats the first.
QuestionLists ==
    UNION {{ql \in [1..n -> (IF n <= 1 THEN Questions ELSE MultiQuestions)] :
              \A j \in 3..n : ql[j] = ql[1]} :
             n \in 0..MaxQuestions}

Requests == [id : {7}, response : BOOLEAN, question : QuestionLists]

\* DNSValue{Expiration, TTL, Value}; hasExp is Expiration != nil.
Value(v, ttl, hasExp, exp) ==
    [value |-> v, ttl |-> ttl, hasExp |-> hasExp, exp |-> exp]

\* DNSEntry{TTL, Values, Meta} as a fetch outcome, or a failed fetch.
Entry(ttl, values) ==
    [kind |-> "entry", ttl |-> ttl, values |-> values,
     ns |-> Str(<<"ns", "ex", "com">>, 0), mbox |-> Str(<<"root", "ex", "com">>, 1)]
NotFound == [kind |-> "notfound", ttl |-> 0, values |-> <<>>,
             ns |-> Str(<<>>, 0), mbox |-> Str(<<>>, 0)]
StoreError == [kind |-> "error", ttl |-> 0, values |-> <<>>,
               ns |-> Str(<<>>, 0), mbox |-> Str(<<>>, 0)]

IPv4 == Str(<<"10", "0", "0", "7">>, 0)

\* (ttl, expiration) shapes of the values of one entry.
Plain == [ttl |-> 0, hasExp |-> FALSE, exp |-> 0]
Short == [ttl |-> 3, hasExp |-> FALSE, exp |-> 0]
Expired == [ttl |-> 1, hasExp |-> TRUE, exp |-> Now - 1]
Soon == [ttl |-> 0, hasExp |-> TRUE, exp |-> Now + 2]
AtNow == [ttl |-> 0, hasExp |-> TRUE, exp |-> Now]

WithValue(v, m) == Value(v, m.ttl, m.hasExp, m.exp)

EntryTTLs == {0, 20}

\* A string that is no address literal.
NoIP == Str(<<"10", "0", "0">>, 0)

AddressEntries ==
    {Entry(t, <<WithValue(IPv4, p[1]), WithValue(IPv4, p[2])>>) :
        t \in EntryTTLs,
        p \in {<<Short, Plain>>, <<Expired, Soon>>, <<Plain, Expired>>, <<AtNow, Short>>}}
    \cup {Entry(0, <<WithValue(NoIP, Plain), WithValue(IPv4, Plain)>>)}

AliasEntries ==
    {Entry(0, <<WithValue(Str(NameX, 1), Plain)>>),
     Entry(20, <<WithValue(Str(NameX, 0), Expired), WithValue(Str(NameA, 0), Short)>>)}

ZoneEntries == {Entry(0, <<>>), Entry(20, <<WithValue(IPv4, Short)>>)}

\* What the store may hold under a key of the given rrtype.
Outcomes(rrtype) ==
    {NotFound, StoreError} \cup
    CASE rrtype = "A" -> AddressEntries
      [] rrtype = "CNAME" -> AliasEntries
      [] rrtype = "SOA" -> ZoneEntries
      [] OTHER -> {Entry(0, <<WithValue(Str(NameX, 0), Plain)>>)}

\* The zones of the store: where HasRR finds an SOA or a DNAME, and the
\* (name, rrtype) checks that fail with an error.
ZoneConfigs ==
    {[soa |-> {}, dname |-> {}, err |-> {}],
     [soa |-> {ZoneEx}, dname |-> {}, err |-> {}]}

\* A forwarder address: its text and the white space around it.
Server(text) == [lead |-> 0, text |-> text, trail |-> 0]

ForwarderLists == {<<Server("!"), Server("u1")>>, <<Server("u1"), Server("u2")>>}

\* What one upstream does with an exchange.
UpOutcomes == {"error", "answer", "empty"}

VARIABLES
    req,        \* the inbound message
    forwarders, \* s.cfg.Forwarders()
    zones,      \* the store's answers to HasRR
    store,      \* the store's answers to RR, for the keys received so far
    hpc,        \* dnsQueryServe: where the handler is
    hi,         \* dnsQueryServe: the loop index (1-based)
    hanswers,   \* dnsQueryServe: answers
    written,    \* the messages written with w.WriteMsg
    task,       \* serveQuestion: the state of each question's lookup
    tres,       \* serveQuestion: the answers travelling on rc and output
    qname,      \* q.Name of the question object each resolution works on
    stack,      \* the answerQuestion invocations of each question
    probes,     \* the fetchEntry goroutines of each question
    ninv,       \* invocations of answerQuestion started for each question
    contacted,  \* the calls of forwardQuestion that reached an upstream
    order,      \* history: the questions in the order their lookups completed
    fatal,      \* the fatal error that ended the process, or "none"
    built,      \* an answer builder at work: its input and the record it returns
    fwd,        \* a call of forwardQuestion: its arguments, the upstreams, the result
    oracle,     \* a call of haveAuthority: its argument, the zones, the result
    svc,        \* a run of Service.init: the channels, the listeners, what was received
    main,       \* package main's sequential server at work on one message
    both        \* the two resolvers called with one question: what each returns

\* The state of serving one message.
serving == <<req, forwarders, zones, store, hpc, hi, hanswers, written, task, tres,
             qname, stack, probes, ninv, contacted, order, fatal>>

\* The state of the functions that are also studied on their own.
units == <<built, fwd, oracle, svc, main, both>>

vars == <<serving, units>>

NQ == Len(req.question)
QIdx == 1..NQ

(***************************************************************************)
(* Answer builders.  A resource record is its header (name, rrtype, ttl)   *)
(* and its payload (rdata, and rdata2 for the second host name of an SOA); *)
(* src is history: the store key and value the record was built from, or   *)
(* the upstream it came from.                                              *)
(***************************************************************************)
NoStr == Str(<<>>, 0)

FromStore(key, idx) == [origin |-> "store", name |-> key[1], rrtype |-> key[2], idx |-> idx]
FromUpstream(qn, k) == [origin |-> "upstream", name |-> qn, rrtype |-> "", idx |-> k]

RR(name, rrtype, rdata, rdata2, src) ==
    [name |-> name, rrtype |-> rrtype, ttl |-> 0, rdata |-> rdata, rdata2 |-> rdata2,
     src |-> src]

Octets == {"0", "7", "10"}

\* net.ParseIP(s): nil unless s is an address literal.
ParseIP(s) ==
    IF s.dots = 0 /\ Len(s.labels) = 4 /\ \A i \in 1..4 : s.labels[i] \in Octets
    THEN s ELSE NoStr

answerSOA(qn, e, src) == RR(qn, "SOA", DotTerminate(e.ns), DotTerminate(e.mbox), src)
answerA(qn, v, src) == RR(qn, "A", ParseIP(v.value), NoStr, src)
answerCNAME(qn, v, src) == RR(qn, "CNAME", DotTerminate(v.value), NoStr, src)
answerDNAME(qn, v, src) == RR(qn, "DNAME", DotTerminate(v.value), NoStr, src)

answerNS(qn, v, src) == RR(qn, "NS", DotTerminate(v.value), NoStr, src)
answerPTR(qn, v, src) == RR(qn, "PTR", DotTerminate(v.value), NoStr, src)

\* v.Attr: the keys that are set, and the text (or host name) under each.
Attr(keys, priority, weight, port, target) ==
    [keys |-> keys, priority |-> priority, weight |-> weight, port |-> port,
     target |-> target]

\* v.Attr[k] of a map: the empty string when k is not set.
AttrText(a, k) == IF k \in a.keys THEN a[k] ELSE ""

\* The texts strconv.Atoi converts, and the numbers they denote.
Numbers == ("10" :> 10) @@ ("80" :> 80) @@ ("443" :> 443) @@ ("-1" :> -1) @@ ("70000" :> 70000)

\* strconv.Atoi(t)
Atoi(t) == [err |-> t \notin DOMAIN Numbers, n |-> IF t \in DOMAIN Numbers THEN Numbers[t] ELSE 0]

\* uint16(n)
Uint16(n) == n % 65536

\* A number field: its default, replaced by the text when Atoi converts it.
NumberOr(default, t) == IF Atoi(t).err THEN default ELSE Uint16(Atoi(t).n)

\* v.Value != "", for a value "host:suffix..." held as its host part and the
\* texts that follow each colon.
HasValue(v) == ~(v.value.labels = <<>> /\ v.value.dots = 0 /\ v.suffix = <<>>)

\* answerMX.  The values it is given hold no colon.
answerMX(qn, v, src) ==
    [preference |-> NumberOr(50, AttrText(v.attr, "priority"))] @@
    RR(qn, "MX",
       IF "target" \in v.attr.keys THEN DotTerminate(v.attr.target)
       ELSE IF HasValue(v) THEN DotTerminate(v.value)
       ELSE NoStr,
       NoStr, src)

\* answerSRV: targetParts := strings.Split(v.Value, ":") is the host part
\* followed by v.suffix.
answerSRV(qn, v, src) ==
    LET fromAttr == "target" \in v.attr.keys
        port0 == NumberOr(0, AttrText(v.attr, "port"))
    IN  [priority |-> NumberOr(50, AttrText(v.attr, "priority")),
         weight |-> NumberOr(50, AttrText(v.attr, "weight")),
         port |-> IF ~fromAttr /\ HasValue(v) /\ Len(v.suffix) > 0
                  THEN NumberOr(port0, v.suffix[1]) ELSE port0] @@
        RR(qn, "SRV",
           IF fromAttr THEN DotTerminate(v.attr.target)
           ELSE IF HasValue(v) THEN DotTerminate(v.value)
           ELSE NoStr,
           NoStr, src)

(***************************************************************************)
(* The authority oracle.                                                   *)
(***************************************************************************)
\* s.p.HasRR(name, rrtype), name given as its parts.
HasRR(z, name, rrtype) ==
    [found |-> IF rrtype = "SOA" THEN name \in z.soa ELSE name \in z.dname,
     err |-> <<name, rrtype>> \in z.err]

\* A walk that also asks at the last part, the bare TLD.
RECURSIVE AuthorityWithTLD(_, _, _)
AuthorityWithTLD(z, parts, i) ==
    IF i >= Len(parts) THEN FALSE
    ELSE LET name == PartsFrom(parts, i)
             soa == HasRR(z, name, "SOA")
             dname == HasRR(z, name, "DNAME")
         IN  IF ~soa.err /\ soa.found THEN TRUE
             ELSE IF ~dname.err /\ dname.found THEN TRUE
             ELSE AuthorityWithTLD(z, parts, i + 1)

RECURSIVE AuthorityFrom(_, _, _)
AuthorityFrom(z, parts, i) ==
    IF i >= Len(parts) - 1 THEN FALSE
    ELSE LET name == PartsFrom(parts, i)
             soa == HasRR(z, name, "SOA")
             dname == HasRR(z, name, "DNAME")
         IN  IF ~soa.err /\ soa.found THEN TRUE
             ELSE IF ~dname.err /\ dname.found THEN TRUE
             ELSE AuthorityFrom(z, parts, i + 1)

haveAuthority(z, qn) == AuthorityFrom(z, SplitDots(TrimSuffixDot(qn)), 0)

\* History: the exists checks the walk of haveAuthority makes, in order.
RECURSIVE ChecksFrom(_, _, _)
ChecksFrom(z, parts, i) ==
    IF i >= Len(parts) - 1 THEN <<>>
    ELSE LET name == PartsFrom(parts, i)
             soa == HasRR(z, name, "SOA")
             dname == HasRR(z, name, "DNAME")
         IN  IF ~soa.err /\ soa.found THEN <<<<name, "SOA">>>>
             ELSE IF ~dname.err /\ dname.found THEN <<<<name, "SOA">>, <<name, "DNAME">>>>
             ELSE <<<<name, "SOA">>, <<name, "DNAME">>>> \o ChecksFrom(z, parts, i + 1)

oracleChecks(z, qn) == ChecksFrom(z, SplitDots(TrimSuffixDot(qn)), 0)

(***************************************************************************)
(* The forwarder client.  up[k] is what the k-th upstream does.            *)
(***************************************************************************)
TrimSpace(s) == [s EXCEPT !.lead = 0, !.trail = 0]

UpstreamAnswer(q, k) ==
    <<[RR(q.name, q.qtype, IPv4, NoStr, FromUpstream(q.name, k)) EXCEPT !.ttl = 30]>>

\* One pass of the loop body: the exchanges made with server k, the error
\* left in err and the answer section of the reply left in m.
\* An exchange that keeps the truncated UDP reply instead of retrying.
ExchangeNoRetry(q, k, outcome) ==
    [nets |-> <<"udp">>,
     err |-> outcome = "error",
     answer |-> IF outcome \in {"answer", "truncated-answer", "truncated-error"}
                THEN UpstreamAnswer(q, k) ELSE <<>>]

Exchange(q, k, outcome) ==
    [nets |-> IF outcome \in {"truncated-answer", "truncated-error", "truncated-empty"}
              THEN <<"udp", "tcp">> ELSE <<"udp">>,
     err |-> outcome \in {"error", "truncated-error"},
     answer |-> IF outcome \in {"answer", "truncated-answer"}
                THEN UpstreamAnswer(q, k) ELSE <<>>]

RECURSIVE ForwardFrom(_, _, _, _)
ForwardFrom(q, fw, up, k) ==
    IF k > Len(fw) THEN [answers |-> <<>>, contacts |-> <<>>]
    ELSE LET x == Exchange(q, k, up[k])
             here == [n \in 1..Len(x.nets) |->
                        [server |-> TrimSpace(fw[k]).text, net |-> x.nets[n]]]
         IN  IF x.err
             THEN LET rest == ForwardFrom(q, fw, up, k + 1)
                  IN  [answers |-> rest.answers, contacts |-> here \o rest.contacts]
             ELSE [answers |-> x.answer, contacts |-> here]

\* A client that takes a "!" anywhere in the list as the order not to forward.
forwardUnlessAnyBang(q, fw, up) ==
    IF \E k \in 1..Len(fw) : TrimSpace(fw[k]) = Server("!")
    THEN [answers |-> <<>>, contacts |-> <<>>]
    ELSE ForwardFrom(q, fw, up, 1)

forwardQuestion(q, fw, up) ==
    IF Len(fw) = 0 THEN [answers |-> <<>>, contacts |-> <<>>]
    ELSE IF TrimSpace(fw[1]) = Server("!") THEN [answers |-> <<>>, contacts |-> <<>>]
    ELSE ForwardFrom(q, fw, up, 1)

(***************************************************************************)
(* The frontend: dnsQueryServe and serveQuestion.                          *)
(***************************************************************************)
prepareAnswerMsg(r, answers) ==
    [id |-> r.id, response |-> TRUE, authoritative |-> TRUE, question |-> r.question,
     answer |-> answers, rcode |-> "NOERROR"]

\* A failure message that reports a server failure.
prepareServFailMsg(r) ==
    [id |-> r.id, response |-> TRUE, authoritative |-> TRUE, question |-> r.question,
     answer |-> <<>>, rcode |-> "SERVFAIL"]

prepareFailureMsg(r) ==
    [id |-> r.id, response |-> TRUE, authoritative |-> TRUE, question |-> r.question,
     answer |-> <<>>, rcode |-> "NXDOMAIN"]

\* if len(answers) > 0 { prepareAnswerMsg } else { prepareFailureMsg }
Reply(r, answers) ==
    IF Len(answers) > 0 THEN prepareAnswerMsg(r, answers) ELSE prepareFailureMsg(r)

\* A handler that receives from whichever channel has a result.
AnyReadyChannel == {i \in QIdx : task[i] = "output"}

\* for _, ch := range pending { <-ch }: the channel the handler receives from.
PendingChannel == {hi}

\* A new invocation of answerQuestion, as far as the call of fetchBestEntry.
\* name0 is history: q.Name when the invocation began.
NewFrame(inv, depth, name) ==
    [inv |-> inv, depth |-> depth, name0 |-> name, pc |-> "fetch", k |-> 1,
     answerTTL |-> DefaultTTL, answers |-> <<>>, secondary |-> <<>>,
     wouldLikeForwarder |-> TRUE, entry |-> NotFound, key |-> <<NoStr, "">>,
     rrType |-> "", err |-> "notfound", idx |-> 1]

\* One fetchEntry goroutine: st is "run" before its call of s.p.RR and
\* "ready" when it offers the result on its channel; name is the q.Name it
\* read for the call.
Probe(inv, k, rrtype) == [inv |-> inv, k |-> k, rrtype |-> rrtype, st |-> "run", name |-> NoStr]

\* fetchRelatedEntries: the CNAME probe, then the probe of the asked rrtype.
fetchRelatedEntries(inv, qtype) ==
    {Probe(inv, 1, "CNAME")} \cup
    (IF qtype # "CNAME" THEN {Probe(inv, 2, qtype)} ELSE {})

\* No function is studied on its own while a message is served.
UnitsIdle ==
    built = [pc |-> "idle"] /\ fwd = [pc |-> "idle"] /\ oracle = [pc |-> "idle"] /\ svc = [pc |-> "idle"]
    /\ main = [pc |-> "idle"]
    /\ both = [pc |-> "idle"]

Init ==
    /\ req \in Requests
    /\ forwarders \in ForwarderLists
    /\ zones \in ZoneConfigs
    /\ store = <<>>
    /\ hpc = "recv"
    /\ hi = 1
    /\ hanswers = <<>>
    /\ written = <<>>
    /\ task = [i \in QIdx |-> "none"]
    /\ tres = [i \in QIdx |-> <<>>]
    /\ qname = [i \in QIdx |-> req.question[i].name]
    /\ stack = [i \in QIdx |-> <<>>]
    /\ probes = [i \in QIdx |-> {}]
    /\ ninv = [i \in QIdx |-> 0]
    /\ contacted = {}
    /\ order = <<>>
    /\ fatal = "none"
    /\ UnitsIdle

\* dnsQueryServe, lines 172-176: a message marked as a response is dropped;
\* req.Question[0] of a message without questions is out of range.
Receive ==
    /\ fatal = "none"
    /\ hpc = "recv"
    /\ IF req.response
       THEN IF NQ = 0
            THEN hpc' = "panic" /\ fatal' = "index out of range"
            ELSE hpc' = "dropped" /\ UNCHANGED fatal
       ELSE hpc' = (IF NQ = 0 THEN "collect" ELSE "serve") /\ UNCHANGED fatal
    /\ UNCHANGED <<units, req, forwarders, zones, store, hi, hanswers, written, task, tres,
                   qname, stack, probes, ninv, contacted, order>>

\* serveQuestion for question hi: the cache is handed a copy of the question
\* and calls answerQuestion(c, &q, 0) for it.
ServeQuestion ==
    /\ fatal = "none"
    /\ hpc = "serve"
    /\ hi <= NQ
    /\ task' = [task EXCEPT ![hi] = "lookup"]
    /\ qname' = [qname EXCEPT ![hi] = req.question[hi].name]
    /\ stack' = [stack EXCEPT ![hi] = <<NewFrame(1, 0, req.question[hi].name)>>]
    /\ probes' = [probes EXCEPT ![hi] = fetchRelatedEntries(1, req.question[hi].qtype)]
    /\ ninv' = [ninv EXCEPT ![hi] = 1]
    /\ hi' = (IF hi = NQ THEN 1 ELSE hi + 1)
    /\ hpc' = (IF hi = NQ THEN "collect" ELSE "serve")
    /\ UNCHANGED <<units, req, forwarders, zones, store, hanswers, written, tres, contacted,
                   order, fatal>>

\* serveQuestion's goroutine: answers = append(answers, <-rc...); output <- answers
Relay(i) ==
    /\ fatal = "none"
    /\ task[i] = "rc"
    /\ task' = [task EXCEPT ![i] = "output"]
    /\ UNCHANGED <<units, req, forwarders, zones, store, hpc, hi, hanswers, written, tres,
                   qname, stack, probes, ninv, contacted, order, fatal>>

\* answers = append(answers, <-ch...)
Collect ==
    /\ fatal = "none"
    /\ hpc = "collect"
    /\ hi <= NQ
    /\ \E i \in PendingChannel :
          /\ task[i] = "output"
          /\ hanswers' = hanswers \o tres[i]
          /\ task' = [task EXCEPT ![i] = "done"]
    /\ hi' = hi + 1
    /\ UNCHANGED <<units, req, forwarders, zones, store, hpc, written, tres, qname, stack,
                   probes, ninv, contacted, order, fatal>>

\* w.WriteMsg(answerMsg) or w.WriteMsg(failMsg)
WriteReply ==
    /\ fatal = "none"
    /\ hpc = "collect"
    /\ hi > NQ
    /\ written' = Append(written, Reply(req, hanswers))
    /\ hpc' = "done"
    /\ UNCHANGED <<units, req, forwarders, zones, store, hi, hanswers, task, tres, qname,
                   stack, probes, ninv, contacted, order, fatal>>

(***************************************************************************)
(* The resolution core: answerQuestion and its probes.                     *)
(***************************************************************************)
Top(i) == stack[i][Len(stack[i])]
QType(i) == req.question[i].qtype

\* The store's answer for a key: the one already seen, or any the store may
\* hold when the key was not seen before.
StoreAnswers(key) == IF key \in DOMAIN store THEN {store[key]} ELSE Outcomes(key[2])
Seen(key, o) == IF key \in DOMAIN store THEN store ELSE (key :> o) @@ store

\* The error RR returns with an outcome.
ErrOf(o) == IF o.kind = "entry" THEN "nil" ELSE o.kind

\* A loop that takes the result of whichever probe of the invocation is ready.
AnyProbe(f, ps) == {p \in ps : p.inv = f.inv}

\* fetchBestEntry's loop: the probes of the invocation whose result it
\* receives next (data := <-result, in the order of fetchRelatedEntries).
AwaitedProbes(f, ps) == {p \in ps : p.inv = f.inv /\ p.k = f.k}

\* An entry TTL that only ever lowers the pending TTL.
LowerEntryTTL(ttl, e) == IF e.ttl > 0 /\ e.ttl < ttl THEN e.ttl ELSE ttl

\* if entry.TTL > 0 { answerTTL = entry.TTL }
EntryTTL(ttl, e) == IF e.ttl > 0 THEN e.ttl ELSE ttl

\* A loop that never skips a value.
NeverExpired(v) == FALSE

\* value.Expiration != nil && expiration < now
IsExpired(v) == v.hasExp /\ v.exp < Now

\* Lines 269-284 for a value that is not expired: the TTL it leaves.
ValueTTL(ttl, v) ==
    LET remaining == v.exp - Now
        t1 == IF v.hasExp /\ remaining < ttl THEN remaining ELSE ttl
    IN  IF v.ttl > 0 /\ v.ttl < t1 THEN v.ttl ELSE t1

\* for _, answer := range answers { answer.Header().Ttl = answerTTL }
ApplyTTL(answers, ttl) == [n \in 1..Len(answers) |-> [answers[n] EXCEPT !.ttl = ttl]]

\* A decision to forward that does not ask the authority oracle.
WantsForwarderAnyZone(f, z, qn) == f.wouldLikeForwarder

\* A decision to forward that does not look at wouldLikeForwarder.
WantsForwarderAlways(f, z, qn) == ~haveAuthority(z, qn)

\* wouldLikeForwarder && !s.haveAuthority(q)
WantsForwarder(f, z, qn) == f.wouldLikeForwarder /\ ~haveAuthority(z, qn)

\* The end of one pass of the loop over entry.Values.
NextValue(f) ==
    IF f.idx >= Len(f.entry.values) THEN [f EXCEPT !.pc = "finish"]
    ELSE [f EXCEPT !.pc = "loop", !.idx = @ + 1]

\* What a read of q.Name that races with a write of it may see besides the
\* old and the new name: the pointer of one string with the length of the other.
TornName == Str(<<"torn">>, 0)

\* The goroutine of a probe reads q.Name without synchronisation.  Every
\* chase writes q.Name and starts an invocation, so the name was written
\* since the probe started exactly when a later invocation exists.
NameRead(i, p) == IF ninv[i] > p.inv THEN {qname[i], TornName} ELSE {qname[i]}

\* The goroutine of fetchEntry reads q.Name and calls s.p.RR.
ProbeCall(i) ==
    /\ fatal = "none"
    /\ \E p \in probes[i] :
          /\ p.st = "run"
          /\ \E name \in NameRead(i, p) :
                probes' = [probes EXCEPT ![i] =
                             (@ \ {p}) \cup {[p EXCEPT !.st = "ready", !.name = name]}]
    /\ UNCHANGED <<units, req, forwarders, zones, store, hpc, hi, hanswers, written, task,
                   tres, qname, stack, ninv, contacted, order, fatal>>

\* One pass of fetchBestEntry's loop and, when it returns, answerQuestion
\* up to the loop over the values (lines 252-265).
FetchBestEntry(i) ==
    /\ fatal = "none"
    /\ task[i] = "lookup"
    /\ Top(i).pc = "fetch"
    /\ \E p \in AwaitedProbes(Top(i), probes[i]) :
          /\ p.st = "ready"
          /\ \E o \in StoreAnswers(<<p.name, p.rrtype>>) :
                LET f == Top(i)
                    key == <<p.name, p.rrtype>>
                    got == [f EXCEPT !.entry = o, !.key = key, !.rrType = p.rrtype,
                                     !.err = ErrOf(o)]
                    more == \E r \in probes[i] : r.inv = f.inv /\ r # p
                    found == [got EXCEPT !.wouldLikeForwarder = FALSE,
                                         !.answerTTL = EntryTTL(@, o)]
                    next ==
                      IF ErrOf(o) = "nil"
                      THEN IF QType(i) = "SOA"
                           THEN [found EXCEPT !.answers =
                                    <<answerSOA(qname[i], o, FromStore(key, 0))>>,
                                              !.pc = "finish"]
                           ELSE IF Len(o.values) = 0 THEN [found EXCEPT !.pc = "finish"]
                           ELSE [found EXCEPT !.pc = "loop", !.idx = 1]
                      ELSE IF more THEN [got EXCEPT !.k = @ + 1]
                      ELSE [got EXCEPT !.pc = "finish"]
                IN  /\ store' = Seen(key, o)
                    /\ probes' = [probes EXCEPT ![i] = @ \ {p}]
                    /\ stack' = [stack EXCEPT ![i][Len(stack[i])] = next]
    /\ UNCHANGED <<units, req, forwarders, zones, hpc, hi, hanswers, written, task, tres,
                   qname, ninv, contacted, order, fatal>>

\* One pass of the loop over entry.Values (lines 267-329).  A CNAME value
\* rewrites q.Name and calls answerQuestion(c, q2, qDepth+1).
ValueStep(i) ==
    /\ fatal = "none"
    /\ task[i] = "lookup"
    /\ Top(i).pc = "loop"
    /\ LET f == Top(i)
           v == f.entry.values[f.idx]
           src == FromStore(f.key, f.idx)
           g == [f EXCEPT !.answerTTL = ValueTTL(@, v)]
       IN  IF IsExpired(v)
           THEN /\ stack' = [stack EXCEPT ![i][Len(stack[i])] = NextValue(f)]
                /\ UNCHANGED <<qname, probes, ninv, fatal>>
           ELSE IF f.rrType = "CNAME"
           THEN LET answer == answerCNAME(qname[i], v, src)
                    target == answer.rdata
                IN  IF Len(stack[i]) >= StackLimit
                    THEN /\ fatal' = "stack overflow"
                         /\ UNCHANGED <<qname, stack, probes, ninv>>
                    ELSE /\ qname' = [qname EXCEPT ![i] = target]
                         /\ stack' = [stack EXCEPT ![i] =
                               Append([@ EXCEPT ![Len(@)] =
                                         [g EXCEPT !.answers = Append(@, answer),
                                                   !.pc = "chase"]],
                                      NewFrame(ninv[i] + 1, f.depth + 1, target))]
                         /\ probes' = [probes EXCEPT ![i] =
                               @ \cup fetchRelatedEntries(ninv[i] + 1, QType(i))]
                         /\ ninv' = [ninv EXCEPT ![i] = @ + 1]
                         /\ UNCHANGED fatal
           ELSE LET h == CASE f.rrType = "A" ->
                                [g EXCEPT !.answers = Append(@, answerA(qname[i], v, src))]
                           [] f.rrType = "DNAME" ->
                                [g EXCEPT !.answers = Append(@, answerDNAME(qname[i], v, src)),
                                          !.wouldLikeForwarder = TRUE]
                           [] OTHER -> g
                IN  /\ stack' = [stack EXCEPT ![i][Len(stack[i])] = NextValue(h)]
                    /\ UNCHANGED <<qname, probes, ninv, fatal>>
    /\ UNCHANGED <<units, req, forwarders, zones, store, hpc, hi, hanswers, written, task,
                   tres, contacted, order>>

\* A return that stamps the caller's pending TTL on the records it hands over.
ReturnRetimed(i, answers) ==
    LET n == Len(stack[i])
    IN  IF n = 1
        THEN /\ stack' = [stack EXCEPT ![i] = <<>>]
             /\ task' = [task EXCEPT ![i] = "rc"]
             /\ tres' = [tres EXCEPT ![i] = answers]
             /\ order' = Append(order, i)
        ELSE /\ stack' = [stack EXCEPT ![i] =
                            Append(SubSeq(@, 1, n - 2),
                                   NextValue([@[n - 1] EXCEPT !.secondary =
                                                @ \o ApplyTTL(answers, stack[i][n - 1].answerTTL)]))]
             /\ UNCHANGED <<task, tres, order>>

\* return answers: to the caller's secondaryAnswers (line 306), or to the
\* cache, which sends them on the lookup's ResponseChan.
Return(i, answers) ==
    LET n == Len(stack[i])
    IN  IF n = 1
        THEN /\ stack' = [stack EXCEPT ![i] = <<>>]
             /\ task' = [task EXCEPT ![i] = "rc"]
             /\ tres' = [tres EXCEPT ![i] = answers]
             /\ order' = Append(order, i)
        ELSE /\ stack' = [stack EXCEPT ![i] =
                            Append(SubSeq(@, 1, n - 2),
                                   NextValue([@[n - 1] EXCEPT !.secondary = @ \o answers]))]
             /\ UNCHANGED <<task, tres, order>>

\* Lines 333-344: the uniform TTL, the secondary answers, and the decision
\* to forward.
Finish(i) ==
    /\ fatal = "none"
    /\ task[i] = "lookup"
    /\ Top(i).pc = "finish"
    /\ LET f == Top(i)
           all == ApplyTTL(f.answers, f.answerTTL) \o f.secondary
       IN  IF WantsForwarder(f, zones, qname[i])
           THEN /\ stack' = [stack EXCEPT ![i][Len(stack[i])] =
                               [f EXCEPT !.answers = all, !.pc = "forward"]]
                /\ UNCHANGED <<task, tres, order>>
           ELSE Return(i, all)
    /\ UNCHANGED <<units, req, forwarders, zones, store, hpc, hi, hanswers, written, qname,
                   probes, ninv, contacted, fatal>>

\* answers = append(answers, forwardQuestion(q, s.cfg.Forwarders())...)
Forward(i) ==
    /\ fatal = "none"
    /\ task[i] = "lookup"
    /\ Top(i).pc = "forward"
    /\ \E up \in [1..Len(forwarders) -> UpOutcomes] :
          LET f == Top(i)
              r == forwardQuestion([name |-> qname[i], qtype |-> QType(i)], forwarders, up)
          IN  /\ contacted' =
                    IF r.contacts = <<>> THEN contacted
                    ELSE contacted \cup
                           {[q |-> i, depth |-> f.depth, name |-> qname[i],
                             err |-> f.err, rrType |-> f.rrType]}
              /\ Return(i, f.answers \o r.answers)
    /\ UNCHANGED <<units, req, forwarders, zones, store, hpc, hi, hanswers, written, qname,
                   probes, ninv, fatal>>

Next ==
    \/ Receive
    \/ ServeQuestion
    \/ Collect
    \/ WriteReply
    \/ \E i \in QIdx : Relay(i)
    \/ \E i \in QIdx : ProbeCall(i)
    \/ \E i \in QIdx : FetchBestEntry(i)
    \/ \E i \in QIdx : ValueStep(i)
    \/ \E i \in QIdx : Finish(i)
    \/ \E i \in QIdx : Forward(i)

Spec == Init /\ [][Next]_vars

(***************************************************************************)
(* The answer builders on their own: a builder is called with a value (an  *)
(* entry for answerSOA) and returns its record.                            *)
(***************************************************************************)
\* Dots that trail a stored host name.
MaxDots == 2

\* No message is served while a function is studied on its own.
ServingIdle ==
    /\ req = [id |-> 7, response |-> FALSE, question |-> <<>>]
    /\ forwarders = <<>>
    /\ zones = [soa |-> {}, dname |-> {}, err |-> {}]
    /\ store = <<>>
    /\ hpc = "idle"
    /\ hi = 1
    /\ hanswers = <<>>
    /\ written = <<>>
    /\ task = <<>>
    /\ tres = <<>>
    /\ qname = <<>>
    /\ stack = <<>>
    /\ probes = <<>>
    /\ ninv = <<>>
    /\ contacted = {}
    /\ order = <<>>
    /\ fatal = "none"

\* Stored host names: no label or some, and any number of trailing dots.
HostStrings == {Str(l, d) : l \in {<<>>, NameX}, d \in 0..MaxDots}

NoAttr == Attr({}, "", "", "", NoStr)

\* A value with its attributes; suffix is what follows the colons of Value.
UnitValue(host, suffix, attr) ==
    [value |-> host, suffix |-> suffix, attr |-> attr, ttl |-> 0, hasExp |-> FALSE, exp |-> 0]

PortTexts == {"80", "x"}

\* The attributes of an MX value: a target or none.
MXAttrs == {NoAttr} \cup {Attr({"target"}, "", "", "", t) : t \in HostStrings}

\* The attributes of an SRV value: a target or none, a port text or none.
SRVAttrs ==
    {Attr(ks, "", "", IF "port" \in ks THEN pt ELSE "",
          IF "target" \in ks THEN t ELSE NoStr) :
        ks \in SUBSET {"target", "port"}, pt \in PortTexts, t \in HostStrings}

\* The calls of the builders that emit host names.
BuilderCalls ==
    {[rrtype |-> t, v |-> UnitValue(h, <<>>, NoAttr), e |-> NotFound] :
        t \in {"NS", "CNAME", "DNAME", "PTR"}, h \in HostStrings}
    \cup {[rrtype |-> "MX", v |-> UnitValue(h, <<>>, a), e |-> NotFound] :
            h \in HostStrings, a \in MXAttrs}
    \cup {[rrtype |-> "SRV", v |-> UnitValue(h, sfx, a), e |-> NotFound] :
            h \in HostStrings, sfx \in {<<>>, <<"443">>}, a \in SRVAttrs}
    \cup {[rrtype |-> "SOA", v |-> UnitValue(NoStr, <<>>, NoAttr),
           e |-> [Entry(0, <<>>) EXCEPT !.ns = h1, !.mbox = h2]] :
            h1 \in HostStrings, h2 \in HostStrings}

InitBuilders ==
    /\ ServingIdle
    /\ fwd = [pc |-> "idle"]
    /\ oracle = [pc |-> "idle"]
    /\ svc = [pc |-> "idle"]
    /\ main = [pc |-> "idle"]
    /\ both = [pc |-> "idle"]
    /\ \E c \in BuilderCalls : built = [pc |-> "call", call |-> c, out |-> <<>>]

\* The builder of rrtype returns its record for the value (or entry) given.
Build(rrtype, record) ==
    /\ built.pc = "call"
    /\ built.call.rrtype = rrtype
    /\ built' = [built EXCEPT !.pc = "built", !.out = <<record>>]
    /\ UNCHANGED <<serving, fwd, oracle, svc, main, both>>

UnitName == Str(NameA, 1)
UnitSrc == FromStore(<<UnitName, "">>, 1)

BuildNS == Build("NS", answerNS(UnitName, built.call.v, UnitSrc))
BuildCNAME == Build("CNAME", answerCNAME(UnitName, built.call.v, UnitSrc))
BuildDNAME == Build("DNAME", answerDNAME(UnitName, built.call.v, UnitSrc))
BuildPTR == Build("PTR", answerPTR(UnitName, built.call.v, UnitSrc))
BuildMX == Build("MX", answerMX(UnitName, built.call.v, UnitSrc))
BuildSRV == Build("SRV", answerSRV(UnitName, built.call.v, UnitSrc))
BuildSOA == Build("SOA", answerSOA(UnitName, built.call.e, UnitSrc))

NextBuilders ==
    \/ BuildNS
    \/ BuildCNAME
    \/ BuildDNAME
    \/ BuildPTR
    \/ BuildMX
    \/ BuildSRV
    \/ BuildSOA

SpecBuilders == InitBuilders /\ [][NextBuilders]_vars

(***************************************************************************)
(* The forwarder client on its own: forwardQuestion is called with a list  *)
(* of forwarders and returns; up[k] is what the k-th upstream does.        *)
(***************************************************************************)
\* Forwarders in the configured list.
MaxForwarders == 2

\* Forwarder addresses, the "!" with and without white space around it.
ForwarderTexts ==
    {Server("u1"), Server("u2"), Server("!"), [lead |-> 1, text |-> "!", trail |-> 1]}

AllForwarderLists == UNION {[1..n -> ForwarderTexts] : n \in 0..MaxForwarders}

AllUpOutcomes ==
    {"error", "answer", "empty", "truncated-answer", "truncated-error", "truncated-empty"}

\* What the upstreams of a list may do: "!" is no address, the exchange
\* with it fails.
Upstreams(fw) ==
    {up \in [1..Len(fw) -> AllUpOutcomes] :
        \A k \in 1..Len(fw) : fw[k].text = "!" => up[k] = "error"}

UnitQuestion == [name |-> Str(NameX, 1), qtype |-> "A"]

InitForward ==
    /\ ServingIdle
    /\ built = [pc |-> "idle"]
    /\ oracle = [pc |-> "idle"]
    /\ svc = [pc |-> "idle"]
    /\ main = [pc |-> "idle"]
    /\ both = [pc |-> "idle"]
    /\ \E fw \in AllForwarderLists : \E up \in Upstreams(fw) :
          fwd = [pc |-> "call", list |-> fw, up |-> up,
                 result |-> [answers |-> <<>>, contacts |-> <<>>]]

CallForward ==
    /\ fwd.pc = "call"
    /\ fwd' = [fwd EXCEPT !.pc = "returned",
                          !.result = forwardQuestion(UnitQuestion, fwd.list, fwd.up)]
    /\ UNCHANGED <<serving, built, oracle, svc, main, both>>

NextForward == CallForward

SpecForward == InitForward /\ [][NextForward]_vars

(***************************************************************************)
(* The authority oracle on its own: haveAuthority is called for a name     *)
(* and returns.                                                            *)
(***************************************************************************)
\* The names the oracle is asked about: the root, a TLD, a zone and a host,
\* each with and without the dot that ends a fully qualified name.
OracleNames ==
    {Str(l, d) : l \in {<<>>, <<"com">>, ZoneEx, NameA}, d \in 0..1}

\* The names the store is asked about.
CheckedNames == {NameA, ZoneEx, <<"com">>}

\* The store's zones: at most one SOA, at most one DNAME, at most one
\* exists check that fails.
OracleZones ==
    {[soa |-> so, dname |-> dn, err |-> er] :
        so \in {{}} \cup {{n} : n \in CheckedNames},
        dn \in {{}} \cup {{n} : n \in CheckedNames},
        er \in {{}} \cup {{<<n, t>>} : n \in CheckedNames, t \in {"SOA", "DNAME"}}}

InitOracle ==
    /\ ServingIdle
    /\ built = [pc |-> "idle"]
    /\ fwd = [pc |-> "idle"]
    /\ svc = [pc |-> "idle"]
    /\ main = [pc |-> "idle"]
    /\ both = [pc |-> "idle"]
    /\ \E qn \in OracleNames : \E z \in OracleZones :
          oracle = [pc |-> "call", name |-> qn, z |-> z, result |-> FALSE, checks |-> <<>>]

CallOracle ==
    /\ oracle.pc = "call"
    /\ oracle' = [oracle EXCEPT !.pc = "returned",
                                !.result = haveAuthority(oracle.z, oracle.name),
                                !.checks = oracleChecks(oracle.z, oracle.name)]
    /\ UNCHANGED <<serving, built, fwd, svc, main, both>>

NextOracle == CallOracle

SpecOracle == InitOracle /\ [][NextOracle]_vars

(***************************************************************************)
(* Service start-up: NewService makes the channels and runs init in a      *)
(* goroutine; init loads the configuration, signals Started, and starts    *)
(* the two listeners, the first of which to return signals Done.           *)
(***************************************************************************)
Nil == "nil"

Listeners == {"tcp", "udp"}

\* What the provider's Init and Config and the validation return.
Providers ==
    {[init |-> i, config |-> c, validate |-> v] :
        i \in {Nil, "init error"}, c \in {Nil, "config error"}, v \in {Nil, "invalid config"}}

\* What ListenAndServe returns when it returns.
ListenErrors == {"bind error", "server closed"}

\* make(chan T, 1)
NewChan == [buf |-> <<>>, closed |-> FALSE]

loadConfig(p) ==
    IF p.init # Nil THEN p.init
    ELSE IF p.config # Nil THEN p.config
    ELSE IF p.validate # Nil THEN p.validate
    ELSE Nil

\* A signalStarted that leaves the channel open.
signalStartedNoClose(ch, success) ==
    [ch EXCEPT !.buf = Append(@, success)]

signalStarted(ch, success) ==
    [ch EXCEPT !.buf = Append(@, success), !.closed = TRUE]

\* The initialized argument is not used: the Completion is built with false.
signalDone(ch, initialized, err) ==
    [ch EXCEPT !.buf = Append(@, [initialized |-> FALSE, err |-> err]), !.closed = TRUE]

\* A channel that yields one value and is closed.
makeOnce == [buf |-> <<TRUE>>, closed |-> TRUE]

InitService ==
    /\ ServingIdle
    /\ built = [pc |-> "idle"]
    /\ fwd = [pc |-> "idle"]
    /\ oracle = [pc |-> "idle"]
    /\ main = [pc |-> "idle"]
    /\ both = [pc |-> "idle"]
    /\ \E p \in Providers :
          svc = [pc |-> "loadConfig", p |-> p, err |-> Nil, cfg |-> FALSE,
                 registered |-> FALSE, started |-> NewChan, done |-> NewChan,
                 once |-> NewChan,
                 listener |-> [l \in Listeners |-> [pc |-> "none", err |-> Nil]],
                 sentStarted |-> <<>>, sentDone |-> <<>>,
                 gotStarted |-> <<>>, gotDone |-> <<>>,
                 startedClosed |-> FALSE, doneClosed |-> FALSE, panicked |-> FALSE]

ServiceStays == UNCHANGED <<serving, built, fwd, oracle, main, both>>

LoadConfig ==
    /\ svc.pc = "loadConfig"
    /\ LET err == loadConfig(svc.p)
       IN  svc' = [svc EXCEPT !.err = err, !.cfg = (err = Nil),
                              !.pc = IF err # Nil THEN "configFailed" ELSE "configured"]
    /\ ServiceStays

SignalStartFailed ==
    /\ svc.pc = "configFailed"
    /\ svc' = [svc EXCEPT !.started = signalStarted(@, FALSE),
                          !.sentStarted = Append(@, FALSE),
                          !.pc = "startFailed"]
    /\ ServiceStays

SignalDoneFailed ==
    /\ svc.pc = "startFailed"
    /\ svc' = [svc EXCEPT !.done = signalDone(@, FALSE, svc.err),
                          !.sentDone = Append(@, [initialized |-> FALSE, err |-> svc.err]),
                          !.pc = "returned"]
    /\ ServiceStays

Register ==
    /\ svc.pc = "configured"
    /\ svc' = [svc EXCEPT !.registered = TRUE, !.pc = "registered"]
    /\ ServiceStays

SignalStartOK ==
    /\ svc.pc = "registered"
    /\ svc' = [svc EXCEPT !.started = signalStarted(@, TRUE),
                          !.sentStarted = Append(@, TRUE),
                          !.pc = "started"]
    /\ ServiceStays

StartListeners ==
    /\ svc.pc = "started"
    /\ svc' = [svc EXCEPT !.once = makeOnce,
                          !.listener = [l \in Listeners |-> [pc |-> "listening", err |-> Nil]],
                          !.pc = "returned"]
    /\ ServiceStays

ListenReturns(l) ==
    /\ svc.pc # "idle"
    /\ svc.listener[l].pc = "listening"
    /\ \E e \in ListenErrors :
          svc' = [svc EXCEPT !.listener[l] = [pc |-> "stopped", err |-> e]]
    /\ ServiceStays

\* _, ok := <-once
TakeOnce(l) ==
    /\ svc.pc # "idle"
    /\ svc.listener[l].pc = "stopped"
    /\ \/ /\ svc.once.buf # <<>>
          /\ svc' = [svc EXCEPT !.once.buf = Tail(@), !.listener[l].pc = "first"]
       \/ /\ svc.once.buf = <<>>
          /\ svc.once.closed
          /\ svc' = [svc EXCEPT !.listener[l].pc = "exited"]
    /\ ServiceStays

\* A send on a closed channel panics; a send on a full one waits.
SignalDoneStopped(l) ==
    /\ svc.pc # "idle"
    /\ svc.listener[l].pc = "first"
    /\ svc.done.closed \/ svc.done.buf = <<>>
    /\ svc' = IF svc.done.closed
              THEN [svc EXCEPT !.panicked = TRUE, !.listener[l].pc = "exited"]
              ELSE [svc EXCEPT !.done = signalDone(@, TRUE, svc.listener[l].err),
                               !.sentDone = Append(@, [initialized |-> FALSE,
                                                       err |-> svc.listener[l].err]),
                               !.listener[l].pc = "exited"]
    /\ ServiceStays

\* The caller of NewService receives from Started().
ReceiveStarted ==
    /\ svc.pc # "idle"
    /\ \/ /\ svc.started.buf # <<>>
          /\ svc' = [svc EXCEPT !.gotStarted = Append(@, Head(svc.started.buf)),
                                !.started.buf = Tail(@)]
       \/ /\ svc.started.buf = <<>>
          /\ svc.started.closed
          /\ ~svc.startedClosed
          /\ svc' = [svc EXCEPT !.startedClosed = TRUE]
    /\ ServiceStays

\* The caller of NewService receives from Done().
ReceiveDone ==
    /\ svc.pc # "idle"
    /\ \/ /\ svc.done.buf # <<>>
          /\ svc' = [svc EXCEPT !.gotDone = Append(@, Head(svc.done.buf)),
                                !.done.buf = Tail(@)]
       \/ /\ svc.done.buf = <<>>
          /\ svc.done.closed
          /\ ~svc.doneClosed
          /\ svc' = [svc EXCEPT !.doneClosed = TRUE]
    /\ ServiceStays

NextService ==
    \/ LoadConfig
    \/ SignalStartFailed
    \/ SignalDoneFailed
    \/ Register
    \/ SignalStartOK
    \/ StartListeners
    \/ \E l \in Listeners : ListenReturns(l)
    \/ \E l \in Listeners : TakeOnce(l)
    \/ \E l \in Listeners : SignalDoneStopped(l)
    \/ ReceiveStarted
    \/ ReceiveDone

SpecService == InitService /\ [][NextService]_vars

(***************************************************************************)
(* Package main's server (dns.go): one message is served by one handler    *)
(* that resolves the questions one after the other, each through the       *)
(* pointer q := &req.Question[i].                                          *)
(***************************************************************************)
\* defaultTTL := uint32(10800)
HardDefaultTTL == 10800

\* cfg.db.GetDNS for a key: the entry already seen, or any the store may hold.
GetDNS(st, key) == IF key \in DOMAIN st THEN {st[key]} ELSE Outcomes(key[2])

\* The store after it answered o for the key.
Got(st, key, o) == IF key \in DOMAIN st THEN st ELSE (key :> o) @@ st

InitSequential ==
    /\ ServingIdle
    /\ built = [pc |-> "idle"]
    /\ fwd = [pc |-> "idle"]
    /\ oracle = [pc |-> "idle"]
    /\ svc = [pc |-> "idle"]
    /\ both = [pc |-> "idle"]
    /\ \E r \in Requests : \E fw \in ForwarderLists : \E z \in ZoneConfigs :
          main = [pc |-> "recv", req |-> r, received |-> r, forwarders |-> fw, zones |-> z,
                 store |-> <<>>, i |-> 1, answers |-> <<>>, written |-> <<>>,
                 stack |-> <<>>, ninv |-> 0, forwarded |-> {}, fatal |-> "none"]

SequentialStays == UNCHANGED <<serving, built, fwd, oracle, svc, both>>

\* The question the handler is at, as the request holds it now.
SeqQ == main.req.question[main.i]
SeqTop == main.stack[Len(main.stack)]

\* A new invocation of answerQuestion, before its first GetDNS.
SeqFrame(inv, depth, name) ==
    [NewFrame(inv, depth, name) EXCEPT !.answerTTL = HardDefaultTTL]

\* dnsQueryServe, lines 53-57: a message marked as a response is dropped.
SeqReceive ==
    /\ main.pc = "recv"
    /\ main' = IF main.req.response
              THEN IF Len(main.req.question) = 0
                   THEN [main EXCEPT !.pc = "panic", !.fatal = "index out of range"]
                   ELSE [main EXCEPT !.pc = "dropped"]
              ELSE [main EXCEPT !.pc = "loop"]
    /\ SequentialStays

\* q := &req.Question[i]; answerQuestion(cfg, q, defaultTTL)
SeqAsk ==
    /\ main.pc = "loop"
    /\ main.stack = <<>>
    /\ main.i <= Len(main.req.question)
    /\ main' = [main EXCEPT !.stack = <<SeqFrame(1, 0, SeqQ.name)>>, !.ninv = 1]
    /\ SequentialStays

\* Lines 103-131: the CNAME lookup, the lookup of the asked type when the
\* first failed, and the switch on the asked type as far as the loop.
SeqLookup ==
    /\ main.pc = "loop"
    /\ main.stack # <<>>
    /\ SeqTop.pc = "fetch"
    /\ LET f == SeqTop
           k1 == <<SeqQ.name, "CNAME">>
           k2 == <<SeqQ.name, SeqQ.qtype>>
       IN  \E o1 \in GetDNS(main.store, k1) :
           \E o2 \in GetDNS(Got(main.store, k1, o1), k2) :
              LET first == ErrOf(o1) = "nil"
                  o == IF first THEN o1 ELSE o2
                  key == IF first THEN k1 ELSE k2
                  st == IF first THEN Got(main.store, k1, o1)
                        ELSE Got(Got(main.store, k1, o1), k2, o2)
                  got == [f EXCEPT !.entry = o, !.key = key, !.rrType = key[2],
                                   !.err = ErrOf(o)]
                  found == [got EXCEPT !.wouldLikeForwarder = FALSE,
                                       !.answerTTL = EntryTTL(@, o)]
                  next ==
                    IF ErrOf(o) = "nil"
                    THEN IF SeqQ.qtype = "SOA"
                         THEN [found EXCEPT !.answers =
                                  <<answerSOA(SeqQ.name, o, FromStore(key, 0))>>,
                                            !.pc = "finish"]
                         ELSE IF Len(o.values) = 0 THEN [found EXCEPT !.pc = "finish"]
                         ELSE [found EXCEPT !.pc = "loop", !.idx = 1]
                    ELSE [got EXCEPT !.pc = "finish"]
              IN  main' = [main EXCEPT !.store = st, !.stack[Len(main.stack)] = next]
    /\ SequentialStays

\* One pass of the loop over entry.Values (lines 132-196): the inner switch
\* is on the asked type.  For a CNAME question q2 := q; q2.Name = target
\* writes the target into req.Question[i] and answerQuestion is called again.
SeqValueStep ==
    /\ main.pc = "loop"
    /\ main.stack # <<>>
    /\ SeqTop.pc = "loop"
    /\ LET f == SeqTop
           n == Len(main.stack)
           v == f.entry.values[f.idx]
           src == FromStore(f.key, f.idx)
           g == [f EXCEPT !.answerTTL = ValueTTL(@, v)]
       IN  IF IsExpired(v)
           THEN main' = [main EXCEPT !.stack[n] = NextValue(f)]
           ELSE IF SeqQ.qtype = "CNAME"
           THEN LET answer == answerCNAME(SeqQ.name, v, src)
                    target == answer.rdata
                IN  IF n >= StackLimit
                    THEN main' = [main EXCEPT !.fatal = "stack overflow", !.pc = "panic"]
                    ELSE main' = [main EXCEPT
                            !.req.question[main.i].name = target,
                            !.stack = Append([@ EXCEPT ![n] =
                                                [g EXCEPT !.answers = Append(@, answer),
                                                          !.pc = "chase"]],
                                             SeqFrame(main.ninv + 1, f.depth + 1, target)),
                            !.ninv = @ + 1]
           ELSE LET h == CASE SeqQ.qtype = "A" ->
                                [g EXCEPT !.answers = Append(@, answerA(SeqQ.name, v, src))]
                           [] SeqQ.qtype = "DNAME" ->
                                [g EXCEPT !.answers = Append(@, answerDNAME(SeqQ.name, v, src)),
                                          !.wouldLikeForwarder = TRUE]
                           [] OTHER -> g
                IN  main' = [main EXCEPT !.stack[n] = NextValue(h)]
    /\ SequentialStays

\* return answers: to the caller's secondaryAnswers (line 169), or to the
\* handler's loop, which appends them and goes to the next question.
SeqReturn(answers) ==
    LET n == Len(main.stack)
    IN  IF n = 1
        THEN [main EXCEPT !.stack = <<>>, !.answers = @ \o answers, !.i = @ + 1]
        ELSE [main EXCEPT !.stack =
                 Append(SubSeq(@, 1, n - 2),
                        NextValue([@[n - 1] EXCEPT !.secondary = @ \o answers]))]

\* Lines 199-211: the uniform TTL, the secondary answers, and the forwarder
\* when no entry (or a DNAME) was found and the name is not local.
SeqFinish ==
    /\ main.pc = "loop"
    /\ main.stack # <<>>
    /\ SeqTop.pc = "finish"
    /\ LET f == SeqTop
           all == ApplyTTL(f.answers, f.answerTTL) \o f.secondary
       IN  IF WantsForwarder(f, main.zones, SeqQ.name)
           THEN main' = [main EXCEPT !.stack[Len(main.stack)] =
                           [f EXCEPT !.answers = all, !.pc = "forward"]]
           ELSE main' = SeqReturn(all)
    /\ SequentialStays

\* answers = append(answers, forwardQuestion(q, cfg.DNSForwarders())...)
SeqForward ==
    /\ main.pc = "loop"
    /\ main.stack # <<>>
    /\ SeqTop.pc = "forward"
    /\ \E up \in [1..Len(main.forwarders) -> UpOutcomes] :
          LET f == SeqTop
              r == forwardQuestion(SeqQ, main.forwarders, up)
              done == SeqReturn(f.answers \o r.answers)
          IN  main' = [done EXCEPT !.forwarded =
                         IF r.contacts = <<>> THEN @
                         ELSE @ \cup {[q |-> main.i, depth |-> f.depth, name |-> SeqQ.name]}]
    /\ SequentialStays

\* Lines 75-85: prepareAnswerMsg or prepareFailureMsg from req as it is now.
SeqWrite ==
    /\ main.pc = "loop"
    /\ main.stack = <<>>
    /\ main.i > Len(main.req.question)
    /\ main' = [main EXCEPT !.written = Append(@, Reply(main.req, main.answers)),
                          !.pc = "done"]
    /\ SequentialStays

NextSequential ==
    \/ SeqReceive
    \/ SeqAsk
    \/ SeqLookup
    \/ SeqValueStep
    \/ SeqFinish
    \/ SeqForward
    \/ SeqWrite

SpecSequential == InitSequential /\ [][NextSequential]_vars

(***************************************************************************)
(* The two resolvers side by side: answerQuestion of package main and      *)
(* Service.answerQuestion as functions of the question, the store, the     *)
(* zones, the default TTL, the forwarders and what the upstreams do.       *)
(* Each returns its records, q.Name as it leaves it, and whether the chase *)
(* overflowed the stack.                                                   *)
(***************************************************************************)
\* The store's answer for a key.
At(st, key) == IF key \in DOMAIN st THEN st[key] ELSE NotFound

\* The locals of one invocation of answerQuestion.
Locals(defaultTTL, name) ==
    [answerTTL |-> defaultTTL, answers |-> <<>>, secondary |-> <<>>,
     wouldLikeForwarder |-> TRUE, name |-> name, fatal |-> FALSE]

Overflow(name) == [answers |-> <<>>, name |-> name, fatal |-> TRUE]

\* Lines 333-347 (part_000 198-209): the uniform TTL, the secondary answers,
\* the forwarder, and the return.
Returned(env, qtype, a) ==
    IF a.fatal THEN Overflow(a.name)
    ELSE LET all == ApplyTTL(a.answers, a.answerTTL) \o a.secondary
             q == [name |-> a.name, qtype |-> qtype]
         IN  [answers |-> IF WantsForwarder(a, env.zones, a.name)
                          THEN all \o forwardQuestion(q, env.forwarders, env.up).answers
                          ELSE all,
              name |-> a.name, fatal |-> FALSE]

RECURSIVE ServiceAnswer(_, _, _)
RECURSIVE ServiceValues(_, _, _, _, _, _)

\* Service.answerQuestion, lines 267-329: the loop over entry.Values from
\* idx on; the inner switch is on the rrtype of the selected entry.
ServiceValues(env, qtype, sel, idx, a, depth) ==
    IF a.fatal \/ idx > Len(sel.entry.values) THEN a
    ELSE LET v == sel.entry.values[idx]
             src == FromStore(sel.key, idx)
             g == [a EXCEPT !.answerTTL = ValueTTL(@, v)]
         IN  IF IsExpired(v) THEN ServiceValues(env, qtype, sel, idx + 1, a, depth)
             ELSE IF sel.rrType = "CNAME"
             THEN LET answer == answerCNAME(a.name, v, src)
                      r == ServiceAnswer(env, [name |-> answer.rdata, qtype |-> qtype],
                                         depth + 1)
                  IN  ServiceValues(env, qtype, sel, idx + 1,
                                    [g EXCEPT !.answers = Append(@, answer),
                                              !.secondary = @ \o r.answers,
                                              !.name = r.name, !.fatal = r.fatal],
                                    depth)
             ELSE IF sel.rrType = "A"
             THEN ServiceValues(env, qtype, sel, idx + 1,
                                [g EXCEPT !.answers = Append(@, answerA(a.name, v, src))],
                                depth)
             ELSE IF sel.rrType = "DNAME"
             THEN ServiceValues(env, qtype, sel, idx + 1,
                                [g EXCEPT !.answers = Append(@, answerDNAME(a.name, v, src)),
                                          !.wouldLikeForwarder = TRUE],
                                depth)
             ELSE ServiceValues(env, qtype, sel, idx + 1, g, depth)

\* Service.answerQuestion with fetchBestEntry: the CNAME entry when its
\* probe returns no error, else the entry of the asked rrtype.
ServiceAnswer(env, q, depth) ==
    IF depth >= StackLimit THEN Overflow(q.name)
    ELSE LET ck == <<q.name, "CNAME">>
             tk == <<q.name, q.qtype>>
             sel == IF ErrOf(At(env.store, ck)) = "nil" \/ q.qtype = "CNAME"
                    THEN [entry |-> At(env.store, ck), key |-> ck, rrType |-> "CNAME"]
                    ELSE [entry |-> At(env.store, tk), key |-> tk, rrType |-> q.qtype]
             a0 == Locals(env.ttl, q.name)
             a1 == [a0 EXCEPT !.wouldLikeForwarder = FALSE,
                              !.answerTTL = EntryTTL(@, sel.entry)]
         IN  Returned(env, q.qtype,
                IF ErrOf(sel.entry) # "nil" THEN a0
                ELSE IF q.qtype = "SOA"
                THEN [a1 EXCEPT !.answers =
                         <<answerSOA(q.name, sel.entry, FromStore(sel.key, 0))>>]
                ELSE ServiceValues(env, q.qtype, sel, 1, a1, depth))

RECURSIVE MainAnswer(_, _, _)
RECURSIVE MainValues(_, _, _, _, _, _)

\* answerQuestion of package main, lines 132-196: the loop over entry.Values
\* from idx on; the inner switch is on the asked rrtype.
MainValues(env, qtype, sel, idx, a, depth) ==
    IF a.fatal \/ idx > Len(sel.entry.values) THEN a
    ELSE LET v == sel.entry.values[idx]
             src == FromStore(sel.key, idx)
             g == [a EXCEPT !.answerTTL = ValueTTL(@, v)]
         IN  IF IsExpired(v) THEN MainValues(env, qtype, sel, idx + 1, a, depth)
             ELSE IF qtype = "CNAME"
             THEN LET answer == answerCNAME(a.name, v, src)
                      r == MainAnswer(env, [name |-> answer.rdata, qtype |-> qtype],
                                      depth + 1)
                  IN  MainValues(env, qtype, sel, idx + 1,
                                 [g EXCEPT !.answers = Append(@, answer),
                                           !.secondary = @ \o r.answers,
                                           !.name = r.name, !.fatal = r.fatal],
                                 depth)
             ELSE IF qtype = "A"
             THEN MainValues(env, qtype, sel, idx + 1,
                             [g EXCEPT !.answers = Append(@, answerA(a.name, v, src))],
                             depth)
             ELSE IF qtype = "DNAME"
             THEN MainValues(env, qtype, sel, idx + 1,
                             [g EXCEPT !.answers = Append(@, answerDNAME(a.name, v, src)),
                                       !.wouldLikeForwarder = TRUE],
                             depth)
             ELSE MainValues(env, qtype, sel, idx + 1, g, depth)

\* answerQuestion of package main: GetDNS for CNAME, then for the asked
\* rrtype when the first returned an error.
MainAnswer(env, q, depth) ==
    IF depth >= StackLimit THEN Overflow(q.name)
    ELSE LET ck == <<q.name, "CNAME">>
             tk == <<q.name, q.qtype>>
             sel == IF ErrOf(At(env.store, ck)) = "nil"
                    THEN [entry |-> At(env.store, ck), key |-> ck]
                    ELSE [entry |-> At(env.store, tk), key |-> tk]
             a0 == Locals(env.ttl, q.name)
             a1 == [a0 EXCEPT !.wouldLikeForwarder = FALSE,
                              !.answerTTL = EntryTTL(@, sel.entry)]
         IN  Returned(env, q.qtype,
                IF ErrOf(sel.entry) # "nil" THEN a0
                ELSE IF q.qtype = "SOA"
                THEN [a1 EXCEPT !.answers =
                         <<answerSOA(q.name, sel.entry, FromStore(sel.key, 0))>>]
                ELSE MainValues(env, q.qtype, sel, 1, a1, depth))

\* The store contents the two resolvers are compared on: the CNAME and the A
\* entries of the two names, and one choice for the SOA and DNAME keys.
StoreContents ==
    {(<<Str(NameA, 1), "CNAME">> :> ca) @@ (<<Str(NameX, 1), "CNAME">> :> cx) @@
     (<<Str(NameA, 1), "A">> :> aa) @@ (<<Str(NameX, 1), "A">> :> ax) @@
     [key \in QNames \X {"SOA", "DNAME"} |-> IF key[2] = "SOA" THEN so ELSE dn] :
        ca \in {NotFound, StoreError} \cup AliasEntries,
        cx \in {NotFound} \cup AliasEntries,
        aa \in {NotFound, Entry(0, <<WithValue(IPv4, Short), WithValue(IPv4, Plain)>>)},
        ax \in {NotFound, Entry(20, <<WithValue(IPv4, Plain), WithValue(IPv4, Expired)>>)},
        so \in {NotFound, Entry(20, <<WithValue(IPv4, Short)>>)},
        dn \in {NotFound, Entry(0, <<WithValue(Str(NameX, 0), Plain)>>)}}

Environments ==
    [store : StoreContents, zones : ZoneConfigs, ttl : {DefaultTTL},
     forwarders : ForwarderLists, up : [1..2 -> {"answer", "error"}]]

InitResolvers ==
    /\ ServingIdle
    /\ built = [pc |-> "idle"]
    /\ fwd = [pc |-> "idle"]
    /\ oracle = [pc |-> "idle"]
    /\ svc = [pc |-> "idle"]
    /\ main = [pc |-> "idle"]
    /\ \E env \in Environments : \E q \in Questions :
          both = [pc |-> "call", env |-> env, q |-> q, done |-> {},
                  package |-> Overflow(NoStr), service |-> Overflow(NoStr)]

\* answerQuestion(cfg, q, defaultTTL) of package main returns.
CallMain ==
    /\ both.pc = "call"
    /\ "package" \notin both.done
    /\ both' = [both EXCEPT !.package = MainAnswer(both.env, both.q, 0),
                            !.done = @ \cup {"package"}]
    /\ UNCHANGED <<serving, built, fwd, oracle, svc, main>>

\* s.answerQuestion(c, q, 0) returns.
CallService ==
    /\ both.pc = "call"
    /\ "service" \notin both.done
    /\ both' = [both EXCEPT !.service = ServiceAnswer(both.env, both.q, 0),
                            !.done = @ \cup {"service"}]
    /\ UNCHANGED <<serving, built, fwd, oracle, svc, main>>

NextResolvers ==
    \/ CallMain
    \/ CallService

SpecResolvers == InitResolvers /\ [][NextResolvers]_vars

(***************************************************************************)
(* Properties.                                                             *)
(***************************************************************************)
RECURSIVE ConcatUpTo(_, _)
ConcatUpTo(results, n) ==
    IF n = 0 THEN <<>> ELSE ConcatUpTo(results, n - 1) \o results[n]

\* The answer sets the lookups of questions 1..NQ produced, in question order.
LookupAnswers == ConcatUpTo(tres, NQ)

Range(seq) == {seq[n] : n \in 1..Len(seq)}
Replies == Range(written)

\* C1: the answer section of the reply is the concatenation, in question
\* order 1..n, of the answer sets the lookups of the individual questions
\* produced, whatever the order in which the lookups completed.
C1_AnswersInQuestionOrder == \A m \in Replies : m.answer = LookupAnswers

\* A reply to two questions whose lookups completed in the order 2, 1 and
\* produced different, non-empty answer sets.
C1_SecondLookupFirst ==
    /\ Len(written) = 1
    /\ NQ = 2
    /\ order = <<2, 1>>
    /\ tres[1] # <<>>
    /\ tres[2] # <<>>
    /\ tres[1] # tres[2]

\* C2: a reply carries NOERROR exactly when the answer set aggregated over
\* the questions of the message is non-empty and NXDOMAIN exactly when it is
\* empty; it never carries any other RCODE.
C2_RcodeFollowsAnswers ==
    \A m \in Replies :
        /\ m.rcode \in {"NOERROR", "NXDOMAIN"}
        /\ (m.rcode = "NOERROR") <=> (LookupAnswers # <<>>)
        /\ (m.rcode = "NXDOMAIN") <=> (LookupAnswers = <<>>)

\* An NXDOMAIN reply to a message whose lookup met an error of the store.
C2_StoreErrorIsNameError ==
    /\ NQ >= 1
    /\ \E m \in Replies : m.rcode = "NXDOMAIN"
    /\ \E key \in DOMAIN store : store[key].kind = "error"

\* C3: every inbound message that is not marked as a response gets exactly
\* one reply, whatever the store and the forwarders do: when the service can
\* take no further step for the message, one reply has been written.
C3_OneReplyPerQuery == (~req.response /\ ~ENABLED Next) => Len(written) = 1

\* C4: the reply is marked authoritative if and only if the authority oracle
\* returns true for the name of every question of the message.
C4_AuthoritativeIffLocal ==
    \A m \in Replies :
        m.authoritative <=> (\A j \in QIdx : haveAuthority(zones, req.question[j].name))

\* The invocations of answerQuestion of question i that are past fetchBestEntry.
Fetched(i) == {stack[i][d] : d \in {d \in 1..Len(stack[i]) : stack[i][d].pc # "fetch"}}

\* The invocations of answerQuestion of question i that just called fetchBestEntry.
Fetching(i) ==
    {stack[i][d] : d \in {d \in 1..Len(stack[i]) :
                            stack[i][d].pc = "fetch" /\ stack[i][d].k = 1}}

\* C5: for a question of rrtype T # CNAME both the CNAME probe and the T probe
\* are issued, the CNAME entry is selected whenever the CNAME probe returned
\* without error, and the T entry only when the CNAME probe returned an error
\* and the T probe did not; for T = CNAME one probe is issued.
C5_CnameEntryWins ==
    \A i \in QIdx :
        LET T == req.question[i].qtype IN
        /\ \A f \in Fetching(i) :
              {<<p.k, p.rrtype>> : p \in {p \in probes[i] : p.inv = f.inv}}
                = IF T = "CNAME" THEN {<<1, "CNAME">>} ELSE {<<1, "CNAME">>, <<2, T>>}
        /\ \A f \in Fetched(i) :
              LET ck == <<f.name0, "CNAME">>
                  tk == <<f.name0, T>>
              IN  /\ ck \in DOMAIN store
                  /\ IF store[ck].kind = "entry"
                     THEN f.rrType = "CNAME" /\ f.entry = store[ck] /\ f.err = "nil"
                     ELSE IF T = "CNAME" THEN f.err # "nil"
                     ELSE /\ tk \in DOMAIN store
                          /\ f.rrType = T
                          /\ f.entry = store[tk]
                          /\ (f.err = "nil") <=> (store[tk].kind = "entry")

\* An invocation that selected the CNAME entry for a question of another
\* rrtype while the probe of that rrtype had its result ready.
C5_CnameSelectedOverReadyProbe ==
    \E i \in QIdx : \E f \in Fetched(i) :
        /\ req.question[i].qtype # "CNAME"
        /\ f.rrType = "CNAME"
        /\ f.err = "nil"
        /\ \E p \in probes[i] : p.inv = f.inv /\ p.k = 2 /\ p.st = "ready"

Min(S) == CHOOSE x \in S : \A y \in S : x <= y

\* The records of the answer sets the lookups produced and the replies carry.
Delivered == UNION {Range(m.answer) : m \in Replies} \cup UNION {Range(tres[i]) : i \in QIdx}

\* The records built from an entry of the store, and the entry of each.
Primary == {rec \in Delivered : rec.src.origin = "store"}
EntryOf(rec) == store[<<rec.src.name, rec.src.rrtype>>]

\* The values of an entry whose expiration is not earlier than the current time.
Live(e) == {v \in Range(e.values) : ~(v.hasExp /\ v.exp < Now)}

\* The TTLs the live values of an entry ask for.
ValueTTLs(e) ==
    {v.ttl : v \in {v \in Live(e) : v.ttl > 0}}
    \cup {v.exp - Now : v \in {v \in Live(e) : v.hasExp}}

\* C6 as claimed: every primary record carries the minimum of the default
\* TTL, entry.ttl (when > 0) and, over the non-expired values of the entry,
\* value.ttl (when > 0) and value.expiration - now (when set).
C6_TtlIsMinimumWithDefault ==
    \A rec \in Primary :
        LET e == EntryOf(rec)
        IN  rec.ttl = Min({DefaultTTL} \cup (IF e.ttl > 0 THEN {e.ttl} ELSE {}) \cup ValueTTLs(e))

\* C6 as amended: entry.ttl, when > 0, replaces the default TTL; the records
\* of a question other than SOA carry the minimum of that and of what the
\* non-expired values ask for, the record of an SOA question carries it as is.
C6_EntryTtlReplacesDefault ==
    \A rec \in Primary :
        LET e == EntryOf(rec)
            base == IF e.ttl > 0 THEN e.ttl ELSE DefaultTTL
        IN  rec.ttl = IF rec.src.idx = 0 THEN base ELSE Min({base} \cup ValueTTLs(e))

\* A reply with two records built from one entry whose TTL of 20 is above the
\* default, both carrying the TTL 3 of the entry's first value.
C6_TwoRecordsOneTtl ==
    \E m \in Replies : \E r1, r2 \in Range(m.answer) :
        /\ r1.src.origin = "store" /\ r2.src = [r1.src EXCEPT !.idx = 2]
        /\ r1.src.idx = 1
        /\ EntryOf(r1).ttl = 20
        /\ r1.ttl = 3 /\ r2.ttl = 3

\* Every record there is: delivered, or held by an invocation of answerQuestion.
AllAnswers ==
    Delivered \cup
    UNION {Range(stack[i][d].answers) \cup Range(stack[i][d].secondary) :
             <<i, d>> \in {x \in QIdx \X (1..StackLimit) : x[2] <= Len(stack[x[1]])}}

\* C7: no resource record is built from a stored value whose expiration is
\* earlier than the current time, whatever the rrtype and the position of
\* the value in its entry.
C7_NoRecordFromExpiredValue ==
    \A rec \in AllAnswers :
        (rec.src.origin = "store" /\ rec.src.idx > 0) =>
            LET v == EntryOf(rec).values[rec.src.idx]
            IN  ~(v.hasExp /\ v.exp < Now)

\* A reply carrying the record of the second value of an entry whose first
\* value is expired.
C7_ExpiredValueSkipped ==
    \E m \in Replies : \E rec \in Range(m.answer) :
        /\ rec.src.origin = "store"
        /\ rec.src.idx = 2
        /\ EntryOf(rec).values[1].hasExp
        /\ EntryOf(rec).values[1].exp < Now
        /\ \A other \in Range(m.answer) : other.src # [rec.src EXCEPT !.idx = 1]

\* C8 as claimed: when the authority oracle returns true for a question's
\* name, no forwarder is contacted during the resolution of that question,
\* the chase of a CNAME found at that name included.
C8_NoForwardForLocalQuestion ==
    \A c \in contacted : ~haveAuthority(zones, req.question[c.q].name)

\* C8 as amended: an invocation of the resolution contacts no forwarder when
\* the authority oracle returns true for the name it resolves (the question's
\* name at depth 0, the CNAME target in a chase); the chase of a CNAME found
\* at a local name may contact forwarders for a target outside the local zones.
C8_NoForwardForLocalName ==
    \A c \in contacted : ~haveAuthority(zones, c.name)

\* The lookup of a name in a local zone that found no CNAME entry has
\* delivered no answer, and no forwarder was contacted although some are
\* configured.
C8_LocalMissNotForwarded ==
    \E i \in QIdx :
        LET ck == <<req.question[i].name, "CNAME">>
        IN  /\ haveAuthority(zones, req.question[i].name)
            /\ task[i] \in {"rc", "output", "done"}
            /\ ck \in DOMAIN store /\ store[ck].kind = "notfound"
            /\ tres[i] = <<>>
            /\ forwarders[1].text # "!"
            /\ contacted = {}

\* C9: the chase of CNAME entries is bounded, also when the entries form a
\* cycle or point to themselves: no resolution nests more invocations than
\* the stack holds.
C9_ChaseIsBounded == fatal # "stack overflow"

\* C10 as claimed: no forwarder is contacted by an invocation of the
\* resolution whose depth is greater than 0.
C10_NoForwardInChase == \A c \in contacted : c.depth = 0

\* C10 as amended: an invocation at depth > 0 falls back to the forwarders
\* under the rule of depth 0: it found no entry or matched a DNAME, and the
\* authority oracle returns false for the chased name.
C10_ChaseForwardsLikeDepthZero ==
    \A c \in contacted :
        c.depth > 0 =>
            /\ c.err # "nil" \/ c.rrType = "DNAME"
            /\ ~haveAuthority(zones, c.name)

\* A chase that contacted a forwarder for a target the store does not hold.
C10_ChaseForwarded == \E c \in contacted : c.depth > 0 /\ c.err = "notfound"

\* The lookups that have produced their answer set.
Completed == {i \in QIdx : task[i] \in {"rc", "output", "done"}}

\* The store failed, with an error other than not-found, a probe made for
\* the name and rrtype of question i.
ProbeFailed(i) ==
    \E rrtype \in {"CNAME", req.question[i].qtype} :
        LET key == <<req.question[i].name, rrtype>>
        IN  key \in DOMAIN store /\ store[key].kind = "error"

\* C12: when a probe of the store for a question fails with an error other
\* than not-found, the resolution of the question ends with an empty answer
\* set and contacts no forwarder, and with one question the reply is NXDOMAIN.
C12_StoreErrorAborts ==
    \A i \in Completed :
        ProbeFailed(i) =>
            /\ tres[i] = <<>>
            /\ \A c \in contacted : c.q # i
            /\ \A m \in Replies : NQ = 1 => m.rcode = "NXDOMAIN"

\* C17: a message marked as a response, with any number of questions, gets
\* no reply, starts no lookup, and the handler returns normally.
C17_ResponseDroppedSilently ==
    req.response =>
        /\ written = <<>>
        /\ \A i \in QIdx : task[i] = "none"
        /\ fatal = "none"
        /\ hpc \in {"recv", "dropped"}

\* C19: when no probe yields an entry, the error fetchBestEntry returns is
\* ErrNotFound, whatever the errors the probes returned.
C19_NoEntryIsErrNotFound ==
    \A i \in QIdx : \A f \in Fetched(i) : f.err # "nil" => f.err = "notfound"

\* The host names a built record carries.
HostFields(rec) == {rec.rdata} \cup (IF rec.rrtype = "SOA" THEN {rec.rdata2} ELSE {})

\* C13: every host name emitted by the NS, CNAME, DNAME, PTR, MX, SRV and SOA
\* builders ends with exactly one trailing dot, whatever the number of dots
\* that end the stored string, the empty string included.
C13_OneTrailingDot ==
    built.pc = "built" =>
        \A n \in 1..Len(built.out) : \A h \in HostFields(built.out[n]) : h.dots = 1

\* The exchange with an upstream ended in an error.
UpFailed(o) == o \in {"error", "truncated-error"}

\* The UDP reply of an upstream was truncated.
UpTruncated(o) == o \in {"truncated-answer", "truncated-error", "truncated-empty"}

\* The first upstream of the list whose exchange ends without error, 0 if none.
FirstReply(up) ==
    IF \A k \in 1..Len(up) : UpFailed(up[k]) THEN 0
    ELSE Min({k \in 1..Len(up) : ~UpFailed(up[k])})

\* The upstreams up to the first that replies, each over UDP and then, after
\* a truncated reply, over TCP.
RECURSIVE ContactsInOrder(_, _, _)
ContactsInOrder(fw, up, k) ==
    IF k > Len(fw) THEN <<>>
    ELSE <<[server |-> fw[k].text, net |-> "udp"]>>
         \o (IF UpTruncated(up[k]) THEN <<[server |-> fw[k].text, net |-> "tcp"]>> ELSE <<>>)
         \o (IF UpFailed(up[k]) THEN ContactsInOrder(fw, up, k + 1) ELSE <<>>)

\* forwardQuestion returned from a call with forwarding enabled.
Forwarded == fwd.pc = "returned" /\ Len(fwd.list) > 0 /\ fwd.list[1].text # "!"

\* The order of the contacts and the reply that is returned, common to C14
\* as claimed and as amended.
FirstReplyReturned ==
    /\ fwd.result.contacts = ContactsInOrder(fwd.list, fwd.up, 1)
    /\ \A n \in 1..Len(fwd.result.answers) :
          /\ FirstReply(fwd.up) # 0
          /\ fwd.result.answers[n].src = FromUpstream(UnitQuestion.name, FirstReply(fwd.up))
    /\ (FirstReply(fwd.up) # 0 /\ fwd.up[FirstReply(fwd.up)] \in {"answer", "truncated-answer"})
          => fwd.result.answers # <<>>

\* C14 as claimed: with forwarding enabled the upstreams are contacted in
\* list order, each only after every earlier one failed (over TCP after a
\* truncated UDP reply), the answer section of the first reply without error
\* is returned, and the result is empty if and only if every upstream failed.
C14_EmptyIffAllFailed ==
    Forwarded =>
        /\ FirstReplyReturned
        /\ (fwd.result.answers = <<>>) <=> (FirstReply(fwd.up) = 0)

\* C14 as amended: the same order and the same reply, and the result is
\* empty if and only if every upstream failed or the first reply without
\* error carries an empty answer section.
C14_FirstReplyWins ==
    Forwarded =>
        /\ FirstReplyReturned
        /\ (fwd.result.answers = <<>>) <=>
              \/ FirstReply(fwd.up) = 0
              \/ fwd.up[FirstReply(fwd.up)] \in {"empty", "truncated-empty"}

\* The first upstream failed over TCP after a truncated UDP reply and the
\* second replied with an empty answer section.
C14_RetryThenEmptyReply ==
    /\ Forwarded
    /\ Len(fwd.list) = 2
    /\ fwd.up = <<"truncated-error", "empty">>
    /\ Len(fwd.result.contacts) = 3
    /\ fwd.result.answers = <<>>

\* C15: with an empty list or a first entry "!" forwardQuestion returns
\* nothing and contacts no upstream, whatever follows the "!"; a "!" in
\* another position does not disable forwarding.
C15_LeadingBangDisables ==
    fwd.pc = "returned" =>
        IF Len(fwd.list) = 0 \/ fwd.list[1].text = "!"
        THEN fwd.result = [answers |-> <<>>, contacts |-> <<>>]
        ELSE /\ fwd.result.contacts # <<>>
             /\ fwd.result.contacts[1].server = fwd.list[1].text

\* forwardQuestion returned from a call with a list whose first entry is
\* "!" and whose second is an upstream.
C15_BangThenUpstream ==
    /\ fwd.pc = "returned"
    /\ Len(fwd.list) = 2
    /\ fwd.list[1].text = "!"
    /\ fwd.list[2].text = "u1"
    /\ fwd.result.contacts = <<>>

\* The suffixes of a name that are made of at least two labels.
ZoneSuffixes(labels) == {SubSeq(labels, i, Len(labels)) : i \in 1..(Len(labels) - 1)}

\* The store answers true, without error, to an exists check at a suffix.
ZoneAt(z, sfx) ==
    \/ sfx \in z.soa /\ <<sfx, "SOA">> \notin z.err
    \/ sfx \in z.dname /\ <<sfx, "DNAME">> \notin z.err

\* C16: the oracle returns true exactly when the exists check for SOA or for
\* DNAME returns true without error at some suffix of at least two labels;
\* suffixes are examined most-specific first, a failed check counts as no
\* hit and the walk goes on, and a single-label name is never authoritative.
C16_AuthorityIffZoneAtSuffix ==
    oracle.pc = "returned" =>
        LET sfxs == ZoneSuffixes(oracle.name.labels)
        IN  /\ oracle.result <=> (\E sfx \in sfxs : ZoneAt(oracle.z, sfx))
            /\ \A m, n \in 1..Len(oracle.checks) :
                  m < n => Len(oracle.checks[m][1]) >= Len(oracle.checks[n][1])
            /\ \A n \in 1..Len(oracle.checks) : oracle.checks[n][1] \in sfxs
            /\ ~oracle.result =>
                  {oracle.checks[n] : n \in 1..Len(oracle.checks)} = sfxs \X {"SOA", "DNAME"}
            /\ Len(oracle.name.labels) <= 1 => ~oracle.result

\* The oracle returned true for a host whose own SOA check failed and whose
\* parent zone holds an SOA: the walk went on past the error.
C16_WalkPastError ==
    /\ oracle.pc = "returned"
    /\ oracle.name = Str(NameA, 1)
    /\ oracle.z.err = {<<NameA, "SOA">>}
    /\ oracle.z.soa = {ZoneEx}
    /\ oracle.result
    /\ Len(oracle.checks) = 3

\* The error that made the configuration fail to load, or Nil.
LoadError ==
    IF svc.p.init # Nil THEN "init error"
    ELSE IF svc.p.config # Nil THEN "config error"
    ELSE IF svc.p.validate # Nil THEN "invalid config"
    ELSE Nil

C20_RequestQuestionsKept ==
    main.pc # "idle" =>
        /\ main.req.question = main.received.question
        /\ main.req.id = main.received.id
        /\ \A n \in 1..Len(main.written) :
              /\ main.written[n].id = main.received.id
              /\ main.written[n].question = main.received.question

\* The TTL a record got in the resolution that produced it: the pending TTL
\* of its own entry for a record built from the store, the TTL the upstream
\* sent for a forwarded one.
OwnTTL(rec) ==
    IF rec.src.origin = "upstream" THEN 30
    ELSE LET e == EntryOf(rec)
             base == IF e.ttl > 0 THEN e.ttl ELSE DefaultTTL
         IN  IF rec.src.idx = 0 THEN base ELSE Min({base} \cup ValueTTLs(e))

\* The records the invocations of a chase have handed to their callers.
Secondary ==
    UNION {Range(stack[x[1]][x[2]].secondary) :
             x \in {x \in QIdx \X (1..StackLimit) : x[2] <= Len(stack[x[1]])}}

\* C21: the uniform TTL written at the end of a resolution changes only the
\* records built from the entry that resolution selected; a record appended
\* from a CNAME chase keeps, in every caller up to the reply, the TTL it got
\* in its own resolution.
C21_SecondaryKeepsOwnTtl ==
    \A rec \in Secondary \cup Delivered : rec.ttl = OwnTTL(rec)

\* A reply whose CNAME record carries the default TTL and whose chased
\* address record carries the lower TTL of its own value.
C21_ChasedRecordBelowPrimary ==
    \E m \in Replies :
        /\ Len(m.answer) >= 2
        /\ m.answer[1].rrtype = "CNAME"
        /\ m.answer[1].ttl = DefaultTTL
        /\ m.answer[2].rrtype = "A"
        /\ m.answer[2].src.origin = "store"
        /\ m.answer[2].src.name # m.answer[1].src.name
        /\ m.answer[2].ttl < DefaultTTL

\* C22: whatever the rrtype of the question, SOA included, when the store
\* holds a CNAME entry at the question's name the records built from the
\* store with that name as owner are CNAME records built from that entry.
C22_CnameDisplacesOtherTypes ==
    \A i \in Completed :
        LET qn == req.question[i].name
            ck == <<qn, "CNAME">>
        IN  (ck \in DOMAIN store /\ store[ck].kind = "entry") =>
                \A rec \in Range(tres[i]) :
                    (rec.src.origin = "store" /\ rec.name = qn) =>
                        /\ rec.rrtype = "CNAME"
                        /\ rec.src.name = qn
                        /\ rec.src.rrtype = "CNAME"
                        /\ rec.src.idx > 0

\* The values of an entry that are not expired and hold an address literal.
ValidAddresses(e) ==
    {n \in 1..Len(e.values) :
        /\ ~(e.values[n].hasExp /\ e.values[n].exp < Now)
        /\ e.values[n].value.dots = 0
        /\ Len(e.values[n].value.labels) = 4}

\* C23: a value of an A entry that is no valid address literal yields no
\* record: the A records an answer set holds from an entry are as many as
\* the non-expired values of the entry that parse as a literal, and none of
\* them is without an address.
C23_InvalidAddressOmitted ==
    \A i \in Completed :
        LET recs == {n \in 1..Len(tres[i]) :
                        tres[i][n].rrtype = "A" /\ tres[i][n].src.origin = "store"}
        IN  /\ \A n \in recs : tres[i][n].rdata # NoStr
            /\ \A key \in {<<tres[i][n].src.name, tres[i][n].src.rrtype>> : n \in recs} :
                  Cardinality({n \in recs : tres[i][n].src.name = key[1]
                                            /\ tres[i][n].src.rrtype = key[2]})
                    = Cardinality(ValidAddresses(store[key]))

\* C24: the port of an SRV record is the port attribute when it converts
\* to a number, else the port that follows the colon of the value when that
\* converts, else 0.
C24_AttrPortFirst ==
    (built.pc = "built" /\ built.call.rrtype = "SRV") =>
        LET v == built.call.v
            attrPort == "port" \in v.attr.keys /\ v.attr.port \in DOMAIN Numbers
            suffixPort == Len(v.suffix) > 0 /\ v.suffix[1] \in DOMAIN Numbers
        IN  built.out[1].port =
                IF attrPort THEN Numbers[v.attr.port] % 65536
                ELSE IF suffixPort THEN Numbers[v.suffix[1]] % 65536
                ELSE 0

\* C25: every record a resolution hands to the cache or a reply delivers has
\* a header TTL of at least 1, also when a value of its entry expires in the
\* current second.
C25_TtlAtLeastOne == \A rec \in Delivered : rec.ttl >= 1

\* The call of fetchBestEntry that started the probe is still receiving.
Awaited(i, p) ==
    \E d \in 1..Len(stack[i]) : stack[i][d].inv = p.inv /\ stack[i][d].pc = "fetch"

\* C26: once fetchBestEntry has returned, no probe it started is left
\* offering its result on a channel nobody receives from, whatever the
\* outcomes of the probes.
C26_NoProbeLeftBlocked ==
    \A i \in QIdx : \A p \in probes[i] : p.st = "ready" => Awaited(i, p)

\* The name the question had when the invocation that started a probe began.
StartName(i, p) ==
    {stack[i][d].name0 : d \in {d \in 1..Len(stack[i]) : stack[i][d].inv = p.inv}}

\* C27: each fetch of the store issued for an invocation of answerQuestion
\* is made with the name the question had when the invocation began, under
\* every interleaving of the probes with the chase that rewrites the name.
C27_ProbeReadsStartName ==
    \A i \in QIdx : \A p \in probes[i] :
        p.st = "ready" => \A name \in StartName(i, p) : p.name = name

\* C28: for the same store content, default TTL, forwarders and question the
\* sequential resolver of package main and the concurrent resolver of the
\* service return the same sequence of records, in particular for a
\* question of rrtype A at a name that has a CNAME entry.
C28_ResolversAgree ==
    (both.pc = "call" /\ both.done = {"package", "service"}) =>
        /\ both.package.fatal = both.service.fatal
        /\ both.package.answers = both.service.answers

====
